---- MODULE Spec2Model ----
(***************************************************************************)
(* Model of lib/uws-tracker.ts (wt-tracker): the uWebSockets.js gateway    *)
(* that counts live sockets, lazily attaches a PeerContext to a socket,    *)
(* decodes inbound frames and dispatches them to the Tracker.              *)
(*                                                                         *)
(* One action per transport callback (open, drain, message, close).  A     *)
(* callback runs to completion: the event loop is single threaded, and     *)
(* ws.close() calls the close handler before it returns, so the close      *)
(* performed by onMessage is part of the message action.                   *)
(***************************************************************************)
EXTENDS Integers, Sequences, FiniteSets

\* ------------------------------------------------------------------ bounds
NumConns == 2
MaxLen == 3
MaxMsgs == 3
MaxCloses == 2
MaxRuns == 2
MaxStrLen == 2
MaxItems == 2

Conns == 1..NumConns

\* ------------------------------------------------------- frames and bytes
\* The bytes a frame is made of: '"' and the two bytes of U+00E9, 0xC3 (which
\* begins a two byte sequence) and 0xA9 (which continues one).
QUOTE == 34
BACKSLASH == 92
LEAD2 == 195
CONT == 169
REPLACEMENT == 65533

Bytes == {QUOTE, LEAD2, CONT}

Frames == UNION {[1..n -> Bytes] : n \in 0..MaxLen}

IsAscii(b) == b < 128
IsContinuation(b) == b >= 128 /\ b <= 191
IsLead2(b) == b >= 194 /\ b <= 223

\* Well-formedness of a byte string as UTF-8 (one and two byte forms; the
\* alphabet has no lead byte of a longer form).
RECURSIVE ValidUtf8(_)
ValidUtf8(bs) ==
  IF bs = <<>> THEN TRUE
  ELSE IF IsAscii(Head(bs)) THEN ValidUtf8(Tail(bs))
  ELSE IF IsLead2(Head(bs)) /\ Len(bs) >= 2 /\ IsContinuation(bs[2])
       THEN ValidUtf8(Tail(Tail(bs)))
  ELSE FALSE

\* decoder.end(bytes): node's StringDecoder never throws.  A byte that does
\* not begin a well-formed sequence, and a sequence cut short by the next
\* byte or by the end of the buffer, each decode to U+FFFD; end() leaves no
\* state behind for the next frame.
RECURSIVE decoderEnd(_)
decoderEnd(bs) ==
  IF bs = <<>> THEN <<>>
  ELSE IF IsAscii(Head(bs)) THEN <<Head(bs)>> \o decoderEnd(Tail(bs))
  ELSE IF IsLead2(Head(bs)) /\ Len(bs) >= 2 /\ IsContinuation(bs[2])
       THEN <<(Head(bs) - 192) * 64 + (bs[2] - 128)>> \o decoderEnd(Tail(Tail(bs)))
  ELSE <<REPLACEMENT>> \o decoderEnd(Tail(bs))

\* JSON.parse on the text, for the documents these bytes can spell: one string
\* literal with nothing before or after it.  Anything else is a SyntaxError.
SyntaxError == [t |-> "SyntaxError"]

IsStringLiteral(text) ==
  /\ Len(text) >= 2
  /\ text[1] = QUOTE
  /\ text[Len(text)] = QUOTE
  /\ \A i \in 2..(Len(text) - 1) : text[i] # QUOTE /\ text[i] # BACKSLASH /\ text[i] >= 32

\* The grammar for every other text: null, true, false, integers, strings
\* with the escapes \" \\ and \/, arrays and objects, without white space
\* (JSON.stringify writes none).  A parse is [ok, v, next]: the value and the
\* index after it.
NullText == <<110, 117, 108, 108>>
TrueText == <<116, 114, 117, 101>>
FalseText == <<102, 97, 108, 115, 101>>
ParseFailed == [ok |-> FALSE]

StartsWith(text, i, word) ==
  /\ i + Len(word) - 1 <= Len(text)
  /\ SubSeq(text, i, i + Len(word) - 1) = word

IsDigit(ch) == ch >= 48 /\ ch <= 57

RECURSIVE ParseDigits(_, _, _)
ParseDigits(text, i, acc) ==
  IF i <= Len(text) /\ IsDigit(text[i])
    THEN ParseDigits(text, i + 1, 10 * acc + (text[i] - 48))
    ELSE [ok |-> TRUE, v |-> acc, next |-> i]

\* -? ( 0 | [1-9][0-9]* )
ParseNumber(text, i) ==
  LET neg == text[i] = 45
      j == IF neg THEN i + 1 ELSE i
  IN IF j > Len(text) \/ ~IsDigit(text[j]) THEN ParseFailed
     ELSE IF text[j] = 48
       THEN [ok |-> TRUE, v |-> [t |-> "number", n |-> 0], next |-> j + 1]
     ELSE LET d == ParseDigits(text, j, 0)
          IN [ok |-> TRUE, v |-> [t |-> "number", n |-> IF neg THEN 0 - d.v ELSE d.v],
              next |-> d.next]

\* the rest of a string literal, after its opening quote
RECURSIVE ParseString(_, _, _)
ParseString(text, i, acc) ==
  IF i > Len(text) THEN ParseFailed
  ELSE IF text[i] = QUOTE
    THEN [ok |-> TRUE, v |-> [t |-> "string", v |-> acc], next |-> i + 1]
  ELSE IF text[i] = BACKSLASH
    THEN IF i + 1 <= Len(text) /\ text[i + 1] \in {QUOTE, BACKSLASH, 47}
           THEN ParseString(text, i + 2, Append(acc, text[i + 1]))
           ELSE ParseFailed
  ELSE IF text[i] < 32 THEN ParseFailed
  ELSE ParseString(text, i + 1, Append(acc, text[i]))

RECURSIVE ParseValue(_, _)
RECURSIVE ParseElements(_, _, _)
RECURSIVE ParseMembers(_, _, _)

\* value ( , value )* ]
ParseElements(text, i, acc) ==
  LET e == ParseValue(text, i) IN
  IF ~e.ok \/ e.next > Len(text) THEN ParseFailed
  ELSE IF text[e.next] = 93
    THEN [ok |-> TRUE, v |-> [t |-> "array", a |-> Append(acc, e.v)], next |-> e.next + 1]
  ELSE IF text[e.next] = 44 THEN ParseElements(text, e.next + 1, Append(acc, e.v))
  ELSE ParseFailed

\* string : value ( , string : value )* }
ParseMembers(text, i, acc) ==
  IF i > Len(text) \/ text[i] # QUOTE THEN ParseFailed
  ELSE LET k == ParseString(text, i + 1, <<>>) IN
  IF ~k.ok \/ k.next > Len(text) \/ text[k.next] # 58 THEN ParseFailed
  ELSE LET e == ParseValue(text, k.next + 1) IN
  IF ~e.ok \/ e.next > Len(text) THEN ParseFailed
  ELSE IF text[e.next] = 125
    THEN [ok |-> TRUE, v |-> [t |-> "object", o |-> Append(acc, <<k.v.v, e.v>>)],
          next |-> e.next + 1]
  ELSE IF text[e.next] = 44 THEN ParseMembers(text, e.next + 1, Append(acc, <<k.v.v, e.v>>))
  ELSE ParseFailed

ParseValue(text, i) ==
  IF i > Len(text) THEN ParseFailed
  ELSE IF text[i] = QUOTE THEN ParseString(text, i + 1, <<>>)
  ELSE IF text[i] = 91
    THEN IF i + 1 <= Len(text) /\ text[i + 1] = 93
           THEN [ok |-> TRUE, v |-> [t |-> "array", a |-> <<>>], next |-> i + 2]
           ELSE ParseElements(text, i + 1, <<>>)
  ELSE IF text[i] = 123
    THEN IF i + 1 <= Len(text) /\ text[i + 1] = 125
           THEN [ok |-> TRUE, v |-> [t |-> "object", o |-> <<>>], next |-> i + 2]
           ELSE ParseMembers(text, i + 1, <<>>)
  ELSE IF StartsWith(text, i, NullText)
    THEN [ok |-> TRUE, v |-> [t |-> "null"], next |-> i + 4]
  ELSE IF StartsWith(text, i, TrueText)
    THEN [ok |-> TRUE, v |-> [t |-> "boolean", b |-> TRUE], next |-> i + 4]
  ELSE IF StartsWith(text, i, FalseText)
    THEN [ok |-> TRUE, v |-> [t |-> "boolean", b |-> FALSE], next |-> i + 5]
  ELSE IF text[i] = 45 \/ IsDigit(text[i]) THEN ParseNumber(text, i)
  ELSE ParseFailed

ParseDocument(text) ==
  LET r == ParseValue(text, 1) IN
  IF r.ok /\ r.next = Len(text) + 1 THEN r.v ELSE SyntaxError

JSONParse(text) ==
  IF IsStringLiteral(text) THEN [t |-> "string", v |-> SubSeq(text, 2, Len(text) - 1)]
  ELSE ParseDocument(text)

\* JSON.parse(decoder.end(message)) for each frame
Decoded == [b \in Frames |-> JSONParse(decoderEnd(b))]

\* ------------------------------------------------------------ the tracker
\* What tracker.processMessage does with a call: return, or throw.
Returns == "return"
Errors == {"TrackerError", "TypeError", "RangeError"}
Results == {Returns} \cup Errors

IsTrackerErrorNever(e) == FALSE

IsTrackerErrorAlways(e) == TRUE

\* e instanceof TrackerError
IsTrackerError(e) == e = "TrackerError"

RethrownWrapped(e) == "Error"

\* throw e
Rethrown(e) == e

None == "none"
Undefined == 0

\* ------------------------------------------------------------------ state
VARIABLES
  webSocketsCount,  \* this.webSocketsCount
  connState,        \* the transport's state of each socket
  wsPeer,           \* ws.peer: index into peers, or Undefined
  peers,            \* the PeerContext objects created so far; peers[i] is the ws it sends on
  lastEvent,        \* the callback that ran last, with its arguments
  trace,            \* the tracker calls that callback made, in order
  escaped,          \* the exception that left that callback, or None
  msgs,             \* number of message events delivered
  closes,           \* per socket: number of times the close handler ran
  decodedOk,        \* per socket: number of frames JSON.parse accepted
  pmPeers,          \* per socket: the peers passed to processMessage
  disconnected,     \* per socket: the peers passed to disconnectPeer, in order
  settings,         \* this.settings.server: host and port
  promises,         \* the promises run() has returned, in order
  debugMessagesEnabled,  \* debugMessages.enabled when the module was loaded
  wire              \* one value on its way out through sendMessage and back in

\* the state outside the socket callbacks
env == <<settings, promises, debugMessagesEnabled, wire>>

vars == <<webSocketsCount, connState, wsPeer, peers, lastEvent, trace, escaped,
          msgs, closes, decodedOk, pmPeers, disconnected, settings, promises,
          debugMessagesEnabled, wire>>

\* ------------------------------------------------------------- settings
\* settings.server as the caller passes it: given names the keys it has
DefaultHost == "0.0.0.0"
DefaultPort == 8000
Hosts == {"127.0.0.1", "::1"}
Ports == {80, 8443}

UserServerSettings == [given : SUBSET {"host", "port"}, host : Hosts, port : Ports]

\* { port: 8000, host: "0.0.0.0", ...settings.server }
MergeServer(user) ==
  [host |-> IF "host" \in user.given THEN user.host ELSE DefaultHost,
   port |-> IF "port" \in user.given THEN user.port ELSE DefaultPort]

\* nothing on the wire
NoWire == [stage |-> "idle"]

\* the state of the gateway after the constructor
InitGateway ==
  /\ webSocketsCount = 0
  /\ connState = [c \in Conns |-> "opening"]
  /\ wsPeer = [c \in Conns |-> Undefined]
  /\ peers = <<>>
  /\ lastEvent = [type |-> "init", conn |-> 0, frame |-> <<>>]
  /\ trace = <<>>
  /\ escaped = None
  /\ msgs = 0
  /\ closes = [c \in Conns |-> 0]
  /\ decodedOk = [c \in Conns |-> 0]
  /\ pmPeers = [c \in Conns |-> {}]
  /\ disconnected = [c \in Conns |-> <<>>]

\* constructed with no settings, message tracing off (it only adds log lines
\* to the socket callbacks)
Init ==
  /\ InitGateway
  /\ settings = MergeServer([given |-> {}, host |-> DefaultHost, port |-> DefaultPort])
  /\ promises = <<>>
  /\ debugMessagesEnabled = FALSE
  /\ wire = NoWire

\* ------------------------------------------------------------- operations
Increment(n) == n + 1

DecrementSkipped(n) == n

Decrement(n) == n - 1

\* open: this.webSocketsCount++
Open(c) ==
  /\ connState[c] = "opening"
  /\ connState' = [connState EXCEPT ![c] = "open"]
  /\ webSocketsCount' = Increment(webSocketsCount)
  /\ lastEvent' = [type |-> "open", conn |-> c, frame |-> <<>>]
  /\ trace' = <<>>
  /\ escaped' = None
  /\ UNCHANGED <<wsPeer, peers, msgs, closes, decodedOk, pmPeers, disconnected>>
  /\ UNCHANGED env

DeletePeerKept(p) == p

\* delete ws.peer
DeletePeer(p) == Undefined

\* The body of onClose for socket c, entered with ws.peer = p after the
\* running callback has already made the calls in pre.
onClose(c, p, pre) ==
  /\ webSocketsCount' = Decrement(webSocketsCount)
  /\ closes' = [closes EXCEPT ![c] = @ + 1]
  /\ IF p # Undefined
       THEN /\ wsPeer' = [wsPeer EXCEPT ![c] = DeletePeer(p)]
            /\ trace' = Append(pre, [op |-> "disconnectPeer", conn |-> c, peer |-> p,
                                     doc |-> SyntaxError, result |-> Returns,
                                     wsPeerAtCall |-> DeletePeer(p)])
            /\ disconnected' = [disconnected EXCEPT ![c] = Append(@, p)]
       ELSE /\ wsPeer' = [wsPeer EXCEPT ![c] = p]
            /\ trace' = pre
            /\ UNCHANGED disconnected

\* ws.close(): the transport closes the socket and runs the close handler
wsClose(c, p, pre) ==
  /\ connState' = [connState EXCEPT ![c] = "closed"]
  /\ onClose(c, p, pre)

DrainClosing(c) ==
  /\ connState[c] = "open"
  /\ lastEvent' = [type |-> "drain", conn |-> c, frame |-> <<>>]
  /\ escaped' = None
  /\ wsClose(c, wsPeer[c], <<>>)
  /\ UNCHANGED <<peers, msgs, decodedOk, pmPeers>>
  /\ UNCHANGED env

\* drain: only logs
Drain(c) ==
  /\ connState[c] = "open"
  /\ lastEvent' = [type |-> "drain", conn |-> c, frame |-> <<>>]
  /\ trace' = <<>>
  /\ escaped' = None
  /\ UNCHANGED <<webSocketsCount, connState, wsPeer, peers, msgs, closes, decodedOk,
                 pmPeers, disconnected>>
  /\ UNCHANGED env

createPeerShared(heap, c) == IF heap = <<>> THEN Append(heap, c) ELSE heap

\* createPeer(ws): a new object bound to ws
createPeer(heap, c) == Append(heap, c)

NeedsPeerAlways(p) == TRUE

\* peer === undefined
NeedsPeer(p) == p = Undefined

\* the PeerContext objects created for socket c
PeersOf(c) == {i \in DOMAIN peers : peers[i] = c}

onParseErrorIgnored(c, p) ==
  /\ trace' = <<>>
  /\ escaped' = None
  /\ UNCHANGED <<webSocketsCount, connState, wsPeer, closes, disconnected, peers,
                 decodedOk, pmPeers>>

\* the catch block around JSON.parse: ws.close(); return
onParseError(c, p) ==
  /\ wsClose(c, p, <<>>)
  /\ escaped' = None
  /\ UNCHANGED <<peers, decodedOk, pmPeers>>

ProcessMessageCallStalePeer(c, json, p, r) ==
  [op |-> "processMessage", conn |-> c, peer |-> wsPeer[c], doc |-> json, result |-> r,
   wsPeerAtCall |-> p]

\* this.tracker.processMessage(json, peer), and what the tracker did with it
ProcessMessageCall(c, json, p, r) ==
  [op |-> "processMessage", conn |-> c, peer |-> p, doc |-> json, result |-> r,
   wsPeerAtCall |-> p]

\* message: onMessage(ws, message, isBinary); r is what processMessage does
\* when the handler calls it.
onMessage(c, b, r) ==
  LET json == Decoded[b]
      p0 == wsPeer[c]
      heap == IF NeedsPeer(p0) THEN createPeer(peers, c) ELSE peers
      p == IF NeedsPeer(p0) THEN Len(heap) ELSE p0
      call == ProcessMessageCall(c, json, p, r)
  IN
  /\ connState[c] = "open"
  /\ msgs < MaxMsgs
  /\ msgs' = msgs + 1
  /\ lastEvent' = [type |-> "message", conn |-> c, frame |-> b]
  /\ IF json = SyntaxError
       THEN onParseError(c, p0)
       ELSE /\ peers' = heap
            /\ decodedOk' = [decodedOk EXCEPT ![c] = @ + 1]
            /\ pmPeers' = [pmPeers EXCEPT ![c] = @ \cup {p}]
            /\ IF r = Returns
                 THEN /\ wsPeer' = [wsPeer EXCEPT ![c] = p]
                      /\ trace' = <<call>>
                      /\ escaped' = None
                      /\ UNCHANGED <<webSocketsCount, connState, closes, disconnected>>
                 ELSE IF IsTrackerError(r)
                 THEN /\ wsClose(c, p, <<call>>)
                      /\ escaped' = None
                 ELSE /\ wsPeer' = [wsPeer EXCEPT ![c] = p]
                      /\ trace' = <<call>>
                      /\ escaped' = Rethrown(r)
                      /\ UNCHANGED <<webSocketsCount, connState, closes, disconnected>>

Message(c) ==
  /\ connState[c] = "open"
  /\ msgs < MaxMsgs
  /\ \E b \in Frames :
       IF Decoded[b] = SyntaxError
         THEN onMessage(c, b, Returns)
         ELSE \E r \in Results : onMessage(c, b, r)
  /\ UNCHANGED env

\* close: the transport reports that an open socket has gone (remote close,
\* idle timeout, oversized payload)
Close(c) ==
  /\ connState[c] = "open"
  /\ lastEvent' = [type |-> "close", conn |-> c, frame |-> <<>>]
  /\ escaped' = None
  /\ wsClose(c, wsPeer[c], <<>>)
  /\ UNCHANGED <<peers, msgs, decodedOk, pmPeers>>
  /\ UNCHANGED env

\* a close signalled again for a socket whose close handler has already run
CloseAgain(c) ==
  /\ connState[c] = "closed"
  /\ closes[c] < MaxCloses
  /\ lastEvent' = [type |-> "close", conn |-> c, frame |-> <<>>]
  /\ escaped' = None
  /\ wsClose(c, wsPeer[c], <<>>)
  /\ UNCHANGED <<peers, msgs, decodedOk, pmPeers>>
  /\ UNCHANGED env

Next ==
  \E c \in Conns :
    \/ Open(c)
    \/ Drain(c)
    \/ Message(c)
    \/ Close(c)

\* the transport as uWebSockets.js drives it: one close per socket
Spec == Init /\ [][Next]_vars

NextResignalled ==
  \E c \in Conns :
    \/ Open(c)
    \/ Drain(c)
    \/ Message(c)
    \/ Close(c)
    \/ CloseAgain(c)

\* a transport that may signal close more than once for a socket
SpecResignalled == Init /\ [][NextResignalled]_vars

\* ------------------------------------------------------------------ run()
\* what app.listen passes to its callback: the listen socket, or a falsy value
ListenSocket == "us_listen_socket"
NoSocket == "false"
Tokens == {ListenSocket, NoSocket}

TruthyNegated(token) == token = NoSocket

\* if (token)
Truthy(token) == token # NoSocket

ListenErrorDefaultAddress(host, port) ==
  [name |-> "Error",
   message |-> [text |-> "failed to listen to ", host |-> DefaultHost, port |-> DefaultPort]]

\* new Error(`failed to listen to ${host}:${port}`)
ListenError(host, port) ==
  [name |-> "Error",
   message |-> [text |-> "failed to listen to ", host |-> host, port |-> port]]

\* resolve() and reject(reason) of a promise: only the first call settles it
Resolve(p) ==
  [p EXCEPT !.settleCalls = @ + 1,
            !.state = IF p.state = "pending" THEN "fulfilled" ELSE @]

Reject(p, reason) ==
  [p EXCEPT !.settleCalls = @ + 1,
            !.state = IF p.state = "pending" THEN "rejected" ELSE @,
            !.reason = IF p.state = "pending" THEN reason ELSE @]

\* run(): a new promise whose executor calls app.listen(host, port, callback)
Run ==
  /\ Len(promises) < MaxRuns
  /\ promises' = Append(promises,
       [state |-> "pending", reason |-> None, settleCalls |-> 0, token |-> None,
        listens |-> <<[host |-> settings.host, port |-> settings.port]>>])
  /\ UNCHANGED <<webSocketsCount, connState, wsPeer, peers, lastEvent, trace, escaped,
                 msgs, closes, decodedOk, pmPeers, disconnected, settings,
                 debugMessagesEnabled, wire>>

\* the callback of the listen call of the i-th run(); the transport calls it
\* once
ListenCallback(i, token) ==
  /\ promises[i].token = None
  /\ promises' = [promises EXCEPT ![i] =
       [(IF Truthy(token)
           THEN Resolve(promises[i])
           ELSE Reject(promises[i], ListenError(settings.host, settings.port)))
        EXCEPT !.token = token]]
  /\ UNCHANGED <<webSocketsCount, connState, wsPeer, peers, lastEvent, trace, escaped,
                 msgs, closes, decodedOk, pmPeers, disconnected, settings,
                 debugMessagesEnabled, wire>>

Listened == \E i \in DOMAIN promises, token \in Tokens : ListenCallback(i, token)

\* constructed with any settings.server
InitRun ==
  /\ InitGateway
  /\ \E user \in UserServerSettings : settings = MergeServer(user)
  /\ promises = <<>>
  /\ debugMessagesEnabled = FALSE
  /\ wire = NoWire

NextRun == Run \/ Listened

SpecRun == InitRun /\ [][NextRun]_vars

\* ------------------------------------------------------------ sendMessage
\* ws.send on socket c: an open socket takes the frame; for a closed one the
\* transport either ignores the call or rejects the access with an Error
wsSend(c) ==
  IF connState[c] = "open" THEN {None} ELSE {None, "Error"}

\* ws.peer.id: reading a property of undefined is a TypeError
ReadPeerId(p) == IF p = Undefined THEN "TypeError" ELSE None

\* peers[i].sendMessage(json), called by the tracker between callbacks; sent
\* is what ws.send did
sendMessage(i, sent) ==
  LET c == peers[i] IN
  /\ sent \in wsSend(c)
  /\ lastEvent' = [type |-> "send", conn |-> c, frame |-> <<>>]
  /\ trace' = <<>>
  /\ escaped' = IF sent # None THEN sent
                ELSE IF debugMessagesEnabled THEN ReadPeerId(wsPeer[c])
                ELSE None
  /\ UNCHANGED <<webSocketsCount, connState, wsPeer, peers, msgs, closes, decodedOk,
                 pmPeers, disconnected, settings, promises, debugMessagesEnabled,
                 wire>>

Send == \E i \in DOMAIN peers, sent \in {None, "Error"} : sendMessage(i, sent)

\* message tracing on or off
InitSend ==
  /\ InitGateway
  /\ settings = MergeServer([given |-> {}, host |-> DefaultHost, port |-> DefaultPort])
  /\ promises = <<>>
  /\ debugMessagesEnabled \in BOOLEAN
  /\ wire = NoWire

NextSend ==
  \/ \E c \in Conns :
       \/ Open(c)
       \/ Drain(c)
       \/ Message(c)
       \/ Close(c)
  \/ Send

SpecSend == InitSend /\ [][NextSend]_vars

\* --------------------------------------------------------------- the wire
\* The values a caller of sendMessage(json: any) can pass, as far as they are
\* modelled: null, booleans, integers, NaN, strings, and arrays and objects of
\* these and of undefined.  An object is the sequence of its <<key, value>>
\* pairs in insertion order.
JNull == [t |-> "null"]
JNaN == [t |-> "NaN"]
JUndefined == [t |-> "undefined"]
JNumber(n) == [t |-> "number", n |-> n]
JString(str) == [t |-> "string", v |-> str]
JBoolean(b) == [t |-> "boolean", b |-> b]

\* the characters of the strings: '"', '\', 'a' and U+00E9
StringChars == {QUOTE, BACKSLASH, 97, 233}
Strings == UNION {[1..n -> StringChars] : n \in 0..MaxStrLen}
Numbers == {0 - 1, 0, 12}

Scalars ==
  {JNull, JNaN, JBoolean(TRUE), JBoolean(FALSE)}
    \cup {JNumber(n) : n \in Numbers} \cup {JString(str) : str \in Strings}

Items == {JNull, JNaN, JUndefined, JNumber(12), JString(<<97>>), JString(<<QUOTE, 233>>)}
Keys == {<<97>>, <<233, BACKSLASH>>}

Arrays == {[t |-> "array", a |-> a] : a \in UNION {[1..n -> Items] : n \in 0..MaxItems}}

Objects ==
  {[t |-> "object", o |-> o] :
     o \in {m \in UNION {[1..n -> Keys \X Items] : n \in 0..Cardinality(Keys)} :
              \A i, j \in DOMAIN m : i # j => m[i][1] # m[j][1]}}

WireValues == Scalars \cup Arrays \cup Objects

\* the values JSON has a notation for
RECURSIVE IsJSONValue(_)
IsJSONValue(v) ==
  IF v.t \in {"null", "boolean", "number", "string"} THEN TRUE
  ELSE IF v.t = "array" THEN \A i \in DOMAIN v.a : IsJSONValue(v.a[i])
  ELSE IF v.t = "object" THEN \A i \in DOMAIN v.o : IsJSONValue(v.o[i][2])
  ELSE FALSE

\* a value with the order of its keys forgotten
RECURSIVE Unordered(_)
Unordered(v) ==
  IF v.t = "array" THEN [t |-> "array", a |-> [i \in DOMAIN v.a |-> Unordered(v.a[i])]]
  ELSE IF v.t = "object"
    THEN [t |-> "object", n |-> Len(v.o),
          o |-> {<<v.o[i][1], Unordered(v.o[i][2])>> : i \in DOMAIN v.o}]
  ELSE v

RECURSIVE DecimalText(_)
DecimalText(n) ==
  IF n < 0 THEN <<45>> \o DecimalText(0 - n)
  ELSE IF n < 10 THEN <<48 + n>>
  ELSE DecimalText(n \div 10) \o <<48 + (n % 10)>>

EscapeCharRaw(ch) == <<ch>>

\* a character inside a string literal: '"' and '\' get a backslash
EscapeChar(ch) == IF ch = QUOTE \/ ch = BACKSLASH THEN <<BACKSLASH, ch>> ELSE <<ch>>

RECURSIVE QuoteChars(_)
QuoteChars(str) ==
  IF str = <<>> THEN <<>> ELSE EscapeChar(Head(str)) \o QuoteChars(Tail(str))

QuoteText(str) == <<QUOTE>> \o QuoteChars(str) \o <<QUOTE>>

\* JSON.stringify(json): NaN is written as null, an undefined array element
\* as null, and a property whose value is undefined is left out.
RECURSIVE JSONStringify(_)
RECURSIVE StringifyElements(_)
RECURSIVE StringifyMembers(_, _)

StringifyElements(a) ==
  IF a = <<>> THEN <<>>
  ELSE (IF Head(a).t = "undefined" THEN NullText ELSE JSONStringify(Head(a)))
       \o (IF Tail(a) = <<>> THEN <<>> ELSE <<44>> \o StringifyElements(Tail(a)))

StringifyMembers(o, first) ==
  IF o = <<>> THEN <<>>
  ELSE IF Head(o)[2].t = "undefined" THEN StringifyMembers(Tail(o), first)
  ELSE (IF first THEN <<>> ELSE <<44>>)
       \o QuoteText(Head(o)[1]) \o <<58>> \o JSONStringify(Head(o)[2])
       \o StringifyMembers(Tail(o), FALSE)

JSONStringify(v) ==
  IF v.t = "null" \/ v.t = "NaN" THEN NullText
  ELSE IF v.t = "boolean" THEN (IF v.b THEN TrueText ELSE FalseText)
  ELSE IF v.t = "number" THEN DecimalText(v.n)
  ELSE IF v.t = "string" THEN QuoteText(v.v)
  ELSE IF v.t = "array" THEN <<91>> \o StringifyElements(v.a) \o <<93>>
  ELSE <<123>> \o StringifyMembers(v.o, TRUE) \o <<125>>

\* ws.send(text, false, false): the text goes out as UTF-8 (characters below
\* U+0800: one or two bytes)
RECURSIVE Utf8Encode(_)
Utf8Encode(text) ==
  IF text = <<>> THEN <<>>
  ELSE IF Head(text) < 128 THEN <<Head(text)>> \o Utf8Encode(Tail(text))
  ELSE <<192 + (Head(text) \div 64), 128 + (Head(text) % 64)>> \o Utf8Encode(Tail(text))

\* sendMessage(json) writes the frame
WireSend ==
  /\ wire.stage = "input"
  /\ wire' = [stage |-> "sent", value |-> wire.value,
              bytes |-> Utf8Encode(JSONStringify(wire.value))]
  /\ UNCHANGED <<webSocketsCount, connState, wsPeer, peers, lastEvent, trace, escaped,
                 msgs, closes, decodedOk, pmPeers, disconnected, settings, promises,
                 debugMessagesEnabled>>

\* the frame comes back in through onMessage's decoding
WireReceive ==
  /\ wire.stage = "sent"
  /\ wire' = [stage |-> "received", value |-> wire.value, bytes |-> wire.bytes,
              decoded |-> JSONParse(decoderEnd(wire.bytes))]
  /\ UNCHANGED <<webSocketsCount, connState, wsPeer, peers, lastEvent, trace, escaped,
                 msgs, closes, decodedOk, pmPeers, disconnected, settings, promises,
                 debugMessagesEnabled>>

InitWire ==
  /\ InitGateway
  /\ settings = MergeServer([given |-> {}, host |-> DefaultHost, port |-> DefaultPort])
  /\ promises = <<>>
  /\ debugMessagesEnabled = FALSE
  /\ \E v \in WireValues : wire = [stage |-> "input", value |-> v]

NextWire == WireSend \/ WireReceive

SpecWire == InitWire /\ [][NextWire]_vars

\* ------------------------------------------------------------- properties
OpenConns == {c \in Conns : connState[c] = "open"}

\* the processMessage calls among a callback's tracker calls
ProcessCalls(tr) == {i \in DOMAIN tr : tr[i].op = "processMessage"}

DisconnectCalls(tr) == {i \in DOMAIN tr : tr[i].op = "disconnectPeer"}

\* C1: between events, stats.webSocketsCount is the number of sockets that
\* have been opened and not yet closed, and it is never negative.
C1_CountIsOpenConns ==
  /\ webSocketsCount = Cardinality(OpenConns)
  /\ webSocketsCount >= 0

C1_Witness ==
  \E c, d \in Conns :
    /\ connState[c] = "open"
    /\ connState[d] = "closed"
    /\ webSocketsCount = 1

\* C2: a close signalled again for a socket whose close handler has already
\* run changes nothing: the counter is not decremented a second time, ws.peer
\* is untouched and the tracker is not called.
C2_SecondCloseIsNoOp ==
  [][\A c \in Conns :
       (closes[c] >= 1 /\ closes'[c] > closes[c]) =>
         /\ webSocketsCount' = webSocketsCount
         /\ wsPeer' = wsPeer
         /\ trace' = <<>>]_vars

\* C3: once a socket that had a PeerContext has closed, disconnectPeer has
\* been called exactly once for it, with that context, however many times
\* the close was signalled.
C3_DisconnectExactlyOnce ==
  \A c \in Conns :
    (closes[c] >= 1 /\ PeersOf(c) # {}) =>
      /\ Len(disconnected[c]) = 1
      /\ PeersOf(c) = {disconnected[c][1]}
      /\ pmPeers[c] = {disconnected[c][1]}

C3_Witness ==
  \E c \in Conns :
    /\ closes[c] = 2
    /\ PeersOf(c) # {}
    /\ Len(disconnected[c]) = 1

\* C4: a socket gets at most one PeerContext over its whole history, and
\* only a message event whose frame JSON.parse accepts creates one.
C4_AtMostOnePeerAfterDecode ==
  [][\A c \in Conns :
       /\ Cardinality(PeersOf(c)') <= 1
       /\ PeersOf(c)' # PeersOf(c) =>
            /\ lastEvent'.type = "message"
            /\ lastEvent'.conn = c
            /\ Decoded[lastEvent'.frame] # SyntaxError
            /\ decodedOk[c] = 0]_vars

C4_Witness ==
  \E c \in Conns :
    /\ decodedOk[c] >= 2
    /\ closes[c] = 1
    /\ Cardinality(PeersOf(c)) = 1

\* C5: all processMessage calls for one socket get the same PeerContext, and
\* no PeerContext is passed for two sockets.
C5_SamePeerPerConn ==
  /\ \A c \in Conns : Cardinality(pmPeers[c]) <= 1
  /\ \A c, d \in Conns : c # d => pmPeers[c] \cap pmPeers[d] = {}
  /\ \A c \in Conns : \A p \in pmPeers[c] : p \in DOMAIN peers /\ peers[p] = c

C5_Witness ==
  \E c, d \in Conns :
    /\ c # d
    /\ decodedOk[c] >= 2
    /\ pmPeers[c] # {}
    /\ pmPeers[d] # {}

\* the step is a message event
MessageStep == msgs' = msgs + 1

\* C6: a frame whose bytes are not valid UTF-8 closes the socket it arrives
\* on and is never passed to processMessage, wherever the invalid bytes are.
C6_InvalidUtf8Closes ==
  (lastEvent.type = "message" /\ ~ValidUtf8(lastEvent.frame)) =>
    /\ connState[lastEvent.conn] = "closed"
    /\ ProcessCalls(trace) = {}

\* C7: a frame whose text is not a JSON document closes the socket, is not
\* passed to processMessage, creates no PeerContext, and the handler returns
\* normally.
C7_SyntaxErrorCloses ==
  [][(MessageStep /\ Decoded[lastEvent'.frame] = SyntaxError) =>
       /\ connState[lastEvent'.conn] = "open"
       /\ connState'[lastEvent'.conn] = "closed"
       /\ ProcessCalls(trace') = {}
       /\ peers' = peers
       /\ escaped' = None]_vars

C7_Witness ==
  /\ lastEvent.type = "message"
  /\ Len(lastEvent.frame) >= 2
  /\ ValidUtf8(lastEvent.frame)
  /\ Decoded[lastEvent.frame] = SyntaxError
  /\ connState[lastEvent.conn] = "closed"
  /\ DisconnectCalls(trace) # {}

\* C8: a frame that JSON.parse accepts is passed to processMessage exactly
\* once, as the parsed document, with the PeerContext of the socket it
\* arrived on.
C8_OneCallPerDecodedFrame ==
  [][(MessageStep /\ Decoded[lastEvent'.frame] # SyntaxError) =>
       /\ Cardinality(ProcessCalls(trace')) = 1
       /\ \A i \in ProcessCalls(trace') :
            /\ i = 1
            /\ trace'[i].conn = lastEvent'.conn
            /\ trace'[i].doc = Decoded[lastEvent'.frame]
            /\ trace'[i].peer \in DOMAIN peers'
            /\ peers'[trace'[i].peer] = lastEvent'.conn
            /\ wsPeer[lastEvent'.conn] # Undefined => trace'[i].peer = wsPeer[lastEvent'.conn]
            /\ connState'[lastEvent'.conn] = "open" => trace'[i].peer = wsPeer'[lastEvent'.conn]]_vars

C8_Witness ==
  /\ lastEvent.type = "message"
  /\ decodedOk[lastEvent.conn] >= 2
  /\ Cardinality(ProcessCalls(trace)) = 1
  /\ ValidUtf8(lastEvent.frame)
  /\ trace[1].doc = [t |-> "string", v |-> <<>>]
  /\ trace[1].result = Returns

\* C9: when processMessage throws a TrackerError the socket the message came
\* on is closed and no exception leaves the message handler.
C9_TrackerErrorCloses ==
  \A i \in ProcessCalls(trace) :
    trace[i].result = "TrackerError" =>
      /\ connState[trace[i].conn] = "closed"
      /\ escaped = None

C9_Witness ==
  \E i \in ProcessCalls(trace) :
    /\ trace[i].result = "TrackerError"
    /\ connState[trace[i].conn] = "closed"
    /\ DisconnectCalls(trace) # {}

\* C10: when processMessage throws anything that is not a TrackerError, that
\* same error leaves the message handler.
C10_OtherErrorPropagates ==
  \A i \in ProcessCalls(trace) :
    (trace[i].result \in Errors /\ trace[i].result # "TrackerError") =>
      escaped = trace[i].result

C10_Witness ==
  \E i \in ProcessCalls(trace) :
    /\ trace[i].result = "RangeError"
    /\ escaped = "RangeError"

\* C14: when a socket with a PeerContext closes, disconnectPeer is called
\* while the context is still attached to the socket (notify, then release).
C14_NotifyBeforeRelease ==
  \A i \in DisconnectCalls(trace) : trace[i].wsPeerAtCall = trace[i].peer

\* C15: between events an open socket has its one PeerContext attached
\* exactly when a frame has been decoded on it, a socket that is not open has
\* none attached, and no PeerContext is created for a closed socket.
C15_PeerAttachedIffDecoded ==
  [][\A c \in Conns :
       /\ connState'[c] = "open" =>
            /\ (decodedOk'[c] >= 1 <=> wsPeer'[c] # Undefined)
            /\ (decodedOk'[c] >= 1 => PeersOf(c)' = {wsPeer'[c]})
            /\ (decodedOk'[c] = 0 => PeersOf(c)' = {})
       /\ connState'[c] # "open" => wsPeer'[c] = Undefined
       /\ connState[c] = "closed" => PeersOf(c)' = PeersOf(c)]_vars

C15_Witness ==
  \E c, d \in Conns :
    /\ connState[c] = "open" /\ wsPeer[c] # Undefined /\ decodedOk[c] >= 2
    /\ connState[d] = "closed" /\ PeersOf(d) # {} /\ wsPeer[d] = Undefined

\* the last callback was a message on c that failed to decode or that the
\* tracker rejected with a TrackerError
FailedOn(c) ==
  /\ lastEvent.type = "message"
  /\ lastEvent.conn = c
  /\ \/ Decoded[lastEvent.frame] = SyntaxError
     \/ \E i \in ProcessCalls(trace) : trace[i].result = "TrackerError"

\* C16: a failed decode or a TrackerError leaves the socket closed, and a
\* closed socket stays closed and gets no further processMessage call.
C16_FailureIsTerminal ==
  [][\A c \in Conns :
       /\ FailedOn(c)' => connState'[c] = "closed"
       /\ connState[c] = "closed" =>
            /\ connState'[c] = "closed"
            /\ decodedOk'[c] = decodedOk[c]
            /\ \A i \in ProcessCalls(trace') : trace'[i].conn # c]_vars

C16_Witness ==
  \E c, d \in Conns :
    /\ c # d
    /\ connState[c] = "closed"
    /\ decodedOk[c] = 0
    /\ closes[c] = 1
    /\ FailedOn(d)
    /\ \E i \in ProcessCalls(trace) : trace[i].result = "TrackerError"

\* C17: when processMessage throws an error that is not a TrackerError the
\* socket stays open, the counter does not change, the PeerContext stays
\* attached and disconnectPeer is not called.
C17_OtherErrorLeavesSocketOpen ==
  [][\A i \in ProcessCalls(trace') :
       (MessageStep /\ trace'[i].result \in Errors /\ trace'[i].result # "TrackerError") =>
         /\ connState'[trace'[i].conn] = "open"
         /\ webSocketsCount' = webSocketsCount
         /\ wsPeer'[trace'[i].conn] = trace'[i].peer
         /\ trace'[i].peer # Undefined
         /\ DisconnectCalls(trace') = {}
         /\ disconnected' = disconnected
         /\ closes' = closes]_vars

C17_Witness ==
  \E i \in ProcessCalls(trace) :
    /\ trace[i].result = "TypeError"
    /\ connState[trace[i].conn] = "open"
    /\ decodedOk[trace[i].conn] >= 2
    /\ webSocketsCount = 2

\* C18: a callback for one socket leaves every other socket's state and
\* attached PeerContext alone and calls the tracker only with the PeerContext
\* created for its own socket.
C18_NoCrossConnectionEffect ==
  [][/\ \A d \in Conns :
          d # lastEvent'.conn =>
            /\ connState'[d] = connState[d]
            /\ wsPeer'[d] = wsPeer[d]
            /\ disconnected'[d] = disconnected[d]
            /\ pmPeers'[d] = pmPeers[d]
            /\ PeersOf(d)' = PeersOf(d)
     /\ \A i \in DOMAIN trace' :
          /\ trace'[i].conn = lastEvent'.conn
          /\ trace'[i].peer \in DOMAIN peers'
          /\ peers'[trace'[i].peer] = lastEvent'.conn]_vars

C18_Witness ==
  \E c, d \in Conns :
    /\ c # d
    /\ lastEvent.conn = c
    /\ connState[c] = "closed"
    /\ DisconnectCalls(trace) # {}
    /\ connState[d] = "open"
    /\ wsPeer[d] # Undefined

\* C19: a drain event changes neither the counter nor any socket's state or
\* PeerContext, and makes no tracker call and no close.
C19_DrainChangesNothing ==
  [][lastEvent'.type = "drain" =>
       /\ webSocketsCount' = webSocketsCount
       /\ connState' = connState
       /\ wsPeer' = wsPeer
       /\ peers' = peers
       /\ closes' = closes
       /\ disconnected' = disconnected
       /\ pmPeers' = pmPeers
       /\ trace' = <<>>
       /\ escaped' = None]_vars

C19_Witness ==
  /\ lastEvent.type = "drain"
  /\ connState[lastEvent.conn] = "open"
  /\ wsPeer[lastEvent.conn] # Undefined
  /\ webSocketsCount = 2

RECURSIVE TotalDisconnects(_)
TotalDisconnects(cs) ==
  IF cs = {} THEN 0
  ELSE LET c == CHOOSE x \in cs : TRUE
       IN Len(disconnected[c]) + TotalDisconnects(cs \ {c})

\* C20: every disconnectPeer call gets a PeerContext that an earlier
\* processMessage call for the same socket got, a socket on which no frame was
\* decoded causes no disconnectPeer call, and there are never more
\* disconnectPeer calls than PeerContexts created.
C20_DisconnectFollowsProcess ==
  [][/\ \A i \in DisconnectCalls(trace') :
          \/ trace'[i].peer \in pmPeers[trace'[i].conn]
          \/ \E j \in ProcessCalls(trace') :
               /\ j < i
               /\ trace'[j].peer = trace'[i].peer
               /\ trace'[j].conn = trace'[i].conn
     /\ \A c \in Conns : decodedOk'[c] = 0 => disconnected'[c] = <<>>
     /\ TotalDisconnects(Conns)' <= Len(peers')]_vars

C20_Witness ==
  \E c, d \in Conns :
    /\ c # d
    /\ closes[c] >= 1 /\ decodedOk[c] = 0 /\ disconnected[c] = <<>>
    /\ closes[d] = 2 /\ decodedOk[d] >= 1 /\ Len(disconnected[d]) = 1

\* C11: sendMessage called after its socket has closed does not raise,
\* whether message tracing is on or off.
C11_SendAfterCloseIsSilent ==
  (lastEvent.type = "send" /\ connState[lastEvent.conn] = "closed") => escaped = None

\* C12 as stated: whatever value sendMessage is given, decoding the frame it
\* writes gives the value back, up to the order of keys.
C12_RoundTripAnyValue ==
  wire.stage = "received" => Unordered(wire.decoded) = Unordered(wire.value)

\* C12: a value that JSON has a notation for comes back from the frame that
\* sendMessage writes, up to the order of keys.
C12_RoundTripJSONValue ==
  (wire.stage = "received" /\ IsJSONValue(wire.value)) =>
    Unordered(wire.decoded) = Unordered(wire.value)

C12_Witness ==
  /\ wire.stage = "received"
  /\ wire.value.t = "object"
  /\ Len(wire.value.o) = 2
  /\ IsJSONValue(wire.value)
  /\ \E i \in DOMAIN wire.value.o : wire.value.o[i][2] = JString(<<QUOTE, 233>>)
  /\ wire.decoded # SyntaxError

\* C13: each run() makes one listen call with the configured host and port;
\* its promise is settled by that call's callback and at most once, fulfilled
\* when the callback gets a listen socket and rejected with an error naming
\* the host and port when it does not.
C13_RunSettlesOnce ==
  \A i \in DOMAIN promises :
    LET p == promises[i] IN
    /\ p.listens = <<[host |-> settings.host, port |-> settings.port]>>
    /\ p.settleCalls <= 1
    /\ (p.token = None) <=> (p.state = "pending")
    /\ (p.token = None) <=> (p.settleCalls = 0)
    /\ p.token = ListenSocket => p.state = "fulfilled" /\ p.reason = None
    /\ p.token = NoSocket =>
         /\ p.state = "rejected"
         /\ p.reason.message.host = settings.host
         /\ p.reason.message.port = settings.port

C13_Witness ==
  \E i, j \in DOMAIN promises :
    /\ promises[i].state = "rejected"
    /\ promises[j].state = "fulfilled"
    /\ settings.host # DefaultHost

TypeOK ==
  /\ webSocketsCount \in Int
  /\ connState \in [Conns -> {"opening", "open", "closed"}]
  /\ \A c \in Conns : wsPeer[c] \in 0..Len(peers)
====
